---- MODULE Spec2Model ----
(***************************************************************************)
(* flow::LayerBuilder (flow/layers/layer_builder.cc).                      *)
(*                                                                         *)
(* The builder turns a stream of Push*/Pop calls into a tree of layers and *)
(* keeps a stack of cull rects beside it.  The state is the arena of the   *)
(* layers created so far, the owning root pointer, the raw current-layer   *)
(* pointer and the cull-rect stack.  Every public method is one action.    *)
(*                                                                         *)
(* Names of the specification and of the code:                             *)
(*   Begin<X>             Push<X>                                          *)
(*   End                  Pop                                              *)
(*   AddPicture           PushPicture                                      *)
(*   AddPerformanceOverlay    PushPerformanceOverlay                       *)
(*   AddExternalSceneReference  PushChildScene (OS_FUCHSIA builds)         *)
(*   TakeTree             TakeLayer                                        *)
(*                                                                         *)
(* Scalars are integers; SK_ScalarMax stands for the largest scalar, and   *)
(* arithmetic saturates there (a float at the maximum absorbs a small      *)
(* offset and stays at the extreme when scaled up).  Matrices are the      *)
(* scale-and-translate matrices  x |-> (sn/sd) * x + t.                    *)
(*                                                                         *)
(* A tree handed out by TakeLayer stays allocated: it now belongs to the   *)
(* caller (the layer tree given to the rasterizer), and its layers stay in *)
(* the arena, marked by the set `taken'.                                   *)
(***************************************************************************)
EXTENDS Integers, Sequences, FiniteSets

\* ------------------------------------------------------------- bounds ---

\* Layers one builder ever creates (linked, discarded or handed out) when
\* every method is called.
MaxLayers == 2

\* The same, for the caller that only clips, transforms and draws pictures.
MaxDeep == 3

\* Layers a run of ConfigSpec may create.
MaxConfigured == 1

\* ------------------------------------------------------------ geometry ---

\* The largest scalar, the corner of SkRect::MakeLargest().
SK_ScalarMax == 1000

Null == 0

Max(a, b) == IF a >= b THEN a ELSE b

Min(a, b) == IF a <= b THEN a ELSE b

\* A scalar result, kept inside the representable range.
Sat(x) == Max(0 - SK_ScalarMax, Min(SK_ScalarMax, x))

MakeLTRB(l, t, r, b) == [fLeft |-> l, fTop |-> t, fRight |-> r, fBottom |-> b]

\* SkRect::MakeLargest()
MakeLargest == MakeLTRB(0 - SK_ScalarMax, 0 - SK_ScalarMax, SK_ScalarMax, SK_ScalarMax)

\* SkRect::MakeEmpty()
MakeEmpty == MakeLTRB(0, 0, 0, 0)

\* SkRect::MakeXYWH(x, y, w, h)
MakeXYWH(x, y, w, h) == MakeLTRB(x, y, Sat(x + w), Sat(y + h))

\* Mutant of Intersects: rects that only touch count as intersecting.
IntersectsLoose(a, b) ==
    /\ Max(a.fLeft, b.fLeft) <= Min(a.fRight, b.fRight)
    /\ Max(a.fTop, b.fTop) <= Min(a.fBottom, b.fBottom)

\* SkRect::Intersects(a, b): the two rects share some area.
Intersects(a, b) ==
    /\ Max(a.fLeft, b.fLeft) < Min(a.fRight, b.fRight)
    /\ Max(a.fTop, b.fTop) < Min(a.fBottom, b.fBottom)

\* SkRect::intersect(a, b): the boolean it returns, and the rect it leaves in
\* *this when it returns true (it leaves *this untouched when it returns false).
intersect(a, b) ==
    LET L == Max(a.fLeft, b.fLeft)
        T == Max(a.fTop, b.fTop)
        R == Min(a.fRight, b.fRight)
        B == Min(a.fBottom, b.fBottom)
    IN  IF L >= R \/ T >= B
        THEN [ok |-> FALSE, rect |-> MakeEmpty]
        ELSE [ok |-> TRUE, rect |-> MakeLTRB(L, T, R, B)]

\* SkRect::offset(dx, dy)
offset(r, dx, dy) ==
    MakeLTRB(Sat(r.fLeft + dx), Sat(r.fTop + dy), Sat(r.fRight + dx), Sat(r.fBottom + dy))

\* A scale-and-translate SkMatrix: x |-> (sn/sd) * x + tx, y |-> (sn/sd) * y + ty.
MakeMatrix(sn, sd, tx, ty) == [sn |-> sn, sd |-> sd, tx |-> tx, ty |-> ty]

Identity == MakeMatrix(1, 1, 0, 0)

\* SkMatrix::invert(&inverse): false for a singular matrix, else the inverse
\* x |-> (sd/sn) * x - (sd/sn) * tx.
invert(m) ==
    LET n == IF m.sn < 0 THEN 0 - m.sd ELSE m.sd    \* the inverse scale is n / d,
        d == IF m.sn < 0 THEN 0 - m.sn ELSE m.sn    \* with d > 0
    IN  IF m.sn = 0
        THEN [ok |-> FALSE, inverse |-> Identity]
        ELSE [ok |-> TRUE,
              inverse |-> MakeMatrix(n, d, 0 - ((n * m.tx) \div d), 0 - ((n * m.ty) \div d))]

\* One coordinate through a matrix; an extreme scalar stays extreme.
mapScalar(m, x, t) ==
    IF x >= SK_ScalarMax \/ x <= 0 - SK_ScalarMax
    THEN IF (m.sn * m.sd) < 0 THEN 0 - x ELSE x
    ELSE Sat(((m.sn * x) \div m.sd) + t)

\* SkMatrix::mapRect(&dst, src): the image of src, sorted.
mapRect(m, r) ==
    LET x1 == mapScalar(m, r.fLeft, m.tx)
        x2 == mapScalar(m, r.fRight, m.tx)
        y1 == mapScalar(m, r.fTop, m.ty)
        y2 == mapScalar(m, r.fBottom, m.ty)
    IN  MakeLTRB(Min(x1, x2), Min(y1, y2), Max(x1, x2), Max(y1, y2))

\* --------------------------------------------------------------- inputs ---

\* Clip rects: two disjoint squares.
ClipRects == {MakeLTRB(0, 0, 3, 3), MakeLTRB(4, 4, 7, 7)}

\* rect() of the rounded rects of clips and physical models.
RRects == {MakeLTRB(0, 0, 3, 3)}

\* getBounds() of the clip paths: a path with empty bounds.
PathBounds == {MakeLTRB(1, 1, 1, 1)}

\* An invertible matrix, x |-> -x/2 + 3 (a reflection, a scaling and a
\* translation; its inverse is x |-> -2x + 6), and a singular one.
Matrices == {MakeMatrix(-1, 2, 3, 3), MakeMatrix(0, 1, 0, 0)}

\* picture->cullRect() of the recorded pictures.
PictureRects == {MakeLTRB(0, 0, 2, 2)}

\* Offsets of pictures; (3, 3) puts a 2 x 2 picture corner to corner with the
\* first clip square and across the edge of the second.
Offsets == {[x |-> 0, y |-> 0], [x |-> 3, y |-> 3]}

\* Offsets of child scenes.
SceneOffsets == {[x |-> 3, y |-> 3]}

\* Sizes of child scenes.
Sizes == {[width |-> 2, height |-> 2]}

\* Rects of the shader mask and of the performance overlay.
PlainRects == {MakeLTRB(0, 0, 3, 3)}

\* A uint32_t as its two 16-bit halves: the value is hi * 2^16 + lo.
MakeUInt32(hi, lo) == [hi |-> hi, lo |-> lo]

\* uint32_t -> int: values of 2^31 and more come out 2^32 lower.
ToInt(u) ==
    IF u.hi < 32768
    THEN u.hi * 65536 + u.lo
    ELSE (u.hi - 65536) * 65536 + u.lo

\* Frame intervals: 0, 3 and UINT32_MAX.
FrameIntervals == {MakeUInt32(0, 0), MakeUInt32(0, 3), MakeUInt32(65535, 65535)}

\* ---------------------------------------------------------------- state ---

VARIABLES
    layers,          \* the arena: every layer created, by creation order
    root_layer_,     \* std::unique_ptr<Layer>: the id of the root, or Null
    current_layer_,  \* ContainerLayer*: the id of the open container, or Null
    cull_rects_,     \* std::stack<SkRect>, bottom first
    rasterizer_tracing_threshold_,      \* what GetRasterizerTracingThreshold returns
    checkerboard_raster_cache_images_,  \* bool
    checkerboard_offscreen_layers_,     \* bool
    taken,           \* roots handed to the caller by TakeLayer
    destroyed,       \* layers PushLayer dropped without linking them
    topAt,           \* per layer, cull_rects_.top() at the call that created it
    lastOp,          \* the last public call and what it returned
    open,            \* groups a well-nested caller has begun and not ended
    capacity         \* how many layers the run may create (MaxLayers or MaxDeep)

vars ==
    <<layers, root_layer_, current_layer_, cull_rects_, rasterizer_tracing_threshold_,
      checkerboard_raster_cache_images_, checkerboard_offscreen_layers_, taken, destroyed,
      topAt, lastOp, open, capacity>>

\* The three configuration fields.
configuration ==
    <<rasterizer_tracing_threshold_, checkerboard_raster_cache_images_,
      checkerboard_offscreen_layers_>>

\* The tree-building state: what the configuration methods must leave alone.
building == <<layers, root_layer_, current_layer_, cull_rects_, taken, destroyed, topAt>>

PushOps ==
    {"PushTransform", "PushClipRect", "PushClipRoundedRect", "PushClipPath",
     "PushOpacity", "PushColorFilter", "PushBackdropFilter", "PushShaderMask",
     "PushPhysicalModel"}

LeafOps == {"PushPerformanceOverlay", "PushPicture", "PushChildScene"}

\* A layer as its constructor and setters leave it: no parent, no children.
\* rect is the clip rect / rrect rect / path bounds / mask rect / paint bounds
\* / picture cull rect / scene extent; the payloads the builder never reads
\* (alpha, colors, blend modes, shaders, filters, hints) are left out.
MakeLayer(kind, rect, off, matrix) ==
    [kind |-> kind, parent |-> Null, children |-> <<>>,
     rect |-> rect, offset |-> off, matrix |-> matrix]

NoOffset == [x |-> 0, y |-> 0]

\* cull_rects_.top()
Top == cull_rects_[Len(cull_rects_)]

\* Layer::parent()
parent(id) == layers[id].parent

\* ContainerLayer::Add(layer) on container c: the layer gets c as its parent
\* and goes to the end of c's children.  The new layer's id is the next one.
Add(c, layer) ==
    LET id == Len(layers) + 1
    IN  /\ layers' = Append([layers EXCEPT ![c].children = Append(@, id)],
                            [layer EXCEPT !.parent = c])
        /\ topAt' = Append(topAt, Top)

\* The record of a call: its name and what it returned.
Called(name, ret) == lastOp' = [name |-> name, ret |-> ret]

\* LayerBuilder::LayerBuilder()
Constructed ==
    /\ layers = <<>>
    /\ root_layer_ = Null
    /\ current_layer_ = Null
    /\ cull_rects_ = <<MakeLargest>>
    /\ taken = {}
    /\ destroyed = {}
    /\ topAt = <<>>
    /\ lastOp = [name |-> "LayerBuilder", ret |-> Null]
    /\ open = 0

\* A builder whose configuration methods are never called: the fields keep
\* what their declarations give them. No Push<X>, Pop, leaf method or
\* TakeLayer reads them.
Unconfigured ==
    /\ rasterizer_tracing_threshold_ = 0
    /\ checkerboard_raster_cache_images_ = FALSE
    /\ checkerboard_offscreen_layers_ = FALSE

Init == Constructed /\ Unconfigured /\ capacity = MaxLayers

\* ----------------------------------------------------------- PushLayer ---

\* A PushLayer whose branch for "root but no current layer" installs the new
\* layer as the root instead of dropping it.
PushLayerReplacesRoot(layer, cullRect) ==
    LET id == Len(layers) + 1
    IN  /\ Len(layers) < capacity
        /\ cull_rects_' = Append(cull_rects_, cullRect)
        /\ IF root_layer_ = Null \/ current_layer_ = Null
           THEN /\ layers' = Append(layers, layer)
                /\ topAt' = Append(topAt, Top)
                /\ root_layer_' = id
                /\ current_layer_' = id
                /\ UNCHANGED destroyed
           ELSE /\ Add(current_layer_, layer)
                /\ current_layer_' = id
                /\ UNCHANGED <<root_layer_, destroyed>>
        /\ UNCHANGED <<taken, configuration>>

\* Mutant of PushLayer: with a root and no current layer, the new layer is
\* linked under the root instead of being dropped.
PushLayerAdoptsAtRoot(layer, cullRect) ==
    LET id == Len(layers) + 1
    IN  /\ Len(layers) < capacity
        /\ cull_rects_' = Append(cull_rects_, cullRect)
        /\ IF root_layer_ = Null
           THEN /\ layers' = Append(layers, layer)
                /\ topAt' = Append(topAt, Top)
                /\ root_layer_' = id
                /\ current_layer_' = id
                /\ UNCHANGED destroyed
           ELSE /\ Add(IF current_layer_ = Null THEN root_layer_ ELSE current_layer_, layer)
                /\ current_layer_' = id
                /\ UNCHANGED <<root_layer_, destroyed>>
        /\ UNCHANGED <<taken, configuration>>

\* LayerBuilder::PushLayer(layer, cullRect)
PushLayer(layer, cullRect) ==
    LET id == Len(layers) + 1
    IN  /\ Len(layers) < capacity
        /\ cull_rects_' = Append(cull_rects_, cullRect)
        /\ IF root_layer_ = Null
           THEN /\ layers' = Append(layers, layer)
                /\ topAt' = Append(topAt, Top)
                /\ root_layer_' = id
                /\ current_layer_' = id
                /\ UNCHANGED destroyed
           ELSE IF current_layer_ = Null
           THEN \* the unique_ptr goes out of scope: the layer is destroyed
                /\ layers' = Append(layers, layer)
                /\ topAt' = Append(topAt, Top)
                /\ destroyed' = destroyed \cup {id}
                /\ UNCHANGED <<root_layer_, current_layer_>>
           ELSE /\ Add(current_layer_, layer)
                /\ current_layer_' = id
                /\ UNCHANGED <<root_layer_, destroyed>>
        /\ UNCHANGED <<taken, configuration>>

\* ------------------------------------------------------------- Push<X> ---

\* A PushTransform that maps the top rect through the matrix itself instead of
\* its inverse.
PushTransformMapsForward(sk_matrix) ==
    LET inv == invert(sk_matrix)
        cullRect == IF inv.ok THEN mapRect(sk_matrix, Top) ELSE MakeLargest
    IN  /\ PushLayer(MakeLayer("TransformLayer", MakeEmpty, NoOffset, sk_matrix), cullRect)
        /\ Called("PushTransform", Null)

\* LayerBuilder::PushTransform(sk_matrix)
PushTransform(sk_matrix) ==
    LET inv == invert(sk_matrix)
        cullRect == IF inv.ok THEN mapRect(inv.inverse, Top) ELSE MakeLargest
    IN  /\ PushLayer(MakeLayer("TransformLayer", MakeEmpty, NoOffset, sk_matrix), cullRect)
        /\ Called("PushTransform", Null)

\* Mutant of ClipCull: a failed intersection leaves the shape's bounds as the
\* cull rect instead of the empty rect.
ClipCullKeepsBounds(bounds) ==
    LET i == intersect(bounds, Top)
    IN  IF ~i.ok THEN bounds ELSE i.rect

\* The cull rect of the three clips and of the physical model: the shape's
\* bounds cut by the top rect, or the empty rect.
ClipCull(bounds) ==
    LET i == intersect(bounds, Top)
    IN  IF ~i.ok THEN MakeEmpty ELSE i.rect

\* LayerBuilder::PushClipRect(clipRect)
PushClipRect(clipRect) ==
    /\ PushLayer(MakeLayer("ClipRectLayer", clipRect, NoOffset, Identity), ClipCull(clipRect))
    /\ Called("PushClipRect", Null)

\* LayerBuilder::PushClipRoundedRect(rrect); rrect.rect() is passed
PushClipRoundedRect(rrect) ==
    /\ PushLayer(MakeLayer("ClipRRectLayer", rrect, NoOffset, Identity), ClipCull(rrect))
    /\ Called("PushClipRoundedRect", Null)

\* LayerBuilder::PushClipPath(path); path.getBounds() is passed
PushClipPath(path) ==
    /\ PushLayer(MakeLayer("ClipPathLayer", path, NoOffset, Identity), ClipCull(path))
    /\ Called("PushClipPath", Null)

\* A PushOpacity that starts its group with the unbounded cull rect.
PushOpacityResetsCull ==
    /\ PushLayer(MakeLayer("OpacityLayer", MakeEmpty, NoOffset, Identity), MakeLargest)
    /\ Called("PushOpacity", Null)

\* LayerBuilder::PushOpacity(alpha)
PushOpacity ==
    /\ PushLayer(MakeLayer("OpacityLayer", MakeEmpty, NoOffset, Identity), Top)
    /\ Called("PushOpacity", Null)

\* LayerBuilder::PushColorFilter(color, blend_mode)
PushColorFilter ==
    /\ PushLayer(MakeLayer("ColorFilterLayer", MakeEmpty, NoOffset, Identity), Top)
    /\ Called("PushColorFilter", Null)

\* LayerBuilder::PushBackdropFilter(filter)
PushBackdropFilter ==
    /\ PushLayer(MakeLayer("BackdropFilterLayer", MakeEmpty, NoOffset, Identity), Top)
    /\ Called("PushBackdropFilter", Null)

\* LayerBuilder::PushShaderMask(shader, rect, blend_mode)
PushShaderMask(rect) ==
    /\ PushLayer(MakeLayer("ShaderMaskLayer", rect, NoOffset, Identity), Top)
    /\ Called("PushShaderMask", Null)

\* A PushPhysicalModel that hands the top cull rect down as it is.
PushPhysicalModelKeepsTop(sk_rrect) ==
    /\ PushLayer(MakeLayer("PhysicalModelLayer", sk_rrect, NoOffset, Identity), Top)
    /\ Called("PushPhysicalModel", Null)

\* LayerBuilder::PushPhysicalModel(sk_rrect, ...); sk_rrect.rect() is passed
PushPhysicalModel(sk_rrect) ==
    /\ PushLayer(MakeLayer("PhysicalModelLayer", sk_rrect, NoOffset, Identity),
                 ClipCull(sk_rrect))
    /\ Called("PushPhysicalModel", Null)

\* -------------------------------------------------------------- leaves ---

\* A PushPerformanceOverlay that prunes against the top cull rect the way
\* PushPicture does.
PushPerformanceOverlayCulled(rect) ==
    /\ IF current_layer_ = Null \/ ~Intersects(rect, Top)
       THEN UNCHANGED <<layers, topAt>>
       ELSE /\ Len(layers) < capacity
            /\ Add(current_layer_,
                   MakeLayer("PerformanceOverlayLayer", rect, NoOffset, Identity))
    /\ UNCHANGED <<root_layer_, current_layer_, cull_rects_, taken, destroyed, configuration>>
    /\ Called("PushPerformanceOverlay", Null)

\* LayerBuilder::PushPerformanceOverlay(enabled_options, rect)
PushPerformanceOverlay(rect) ==
    /\ IF current_layer_ = Null
       THEN UNCHANGED <<layers, topAt>>
       ELSE /\ Len(layers) < capacity
            /\ Add(current_layer_,
                   MakeLayer("PerformanceOverlayLayer", rect, NoOffset, Identity))
    /\ UNCHANGED <<root_layer_, current_layer_, cull_rects_, taken, destroyed, configuration>>
    /\ Called("PushPerformanceOverlay", Null)

\* A PushPicture that tests the picture's own cull rect, without moving it
\* by the offset.
PushPictureTestsUnmoved(off, cullRect) ==
    /\ IF current_layer_ = Null
       THEN UNCHANGED <<layers, topAt>>
       ELSE IF ~Intersects(cullRect, Top)
       THEN UNCHANGED <<layers, topAt>>
       ELSE /\ Len(layers) < capacity
            /\ Add(current_layer_, MakeLayer("PictureLayer", cullRect, off, Identity))
    /\ UNCHANGED <<root_layer_, current_layer_, cull_rects_, taken, destroyed, configuration>>
    /\ Called("PushPicture", Null)

\* Mutant of PushPicture: with no current layer the picture goes to the root,
\* when there is one.
PushPictureFallsBackToRoot(off, cullRect) ==
    LET pictureRect == offset(cullRect, off.x, off.y)
        target == IF current_layer_ = Null THEN root_layer_ ELSE current_layer_
    IN  /\ IF target = Null
           THEN UNCHANGED <<layers, topAt>>
           ELSE IF ~Intersects(pictureRect, Top)
           THEN UNCHANGED <<layers, topAt>>
           ELSE /\ Len(layers) < capacity
                /\ Add(target, MakeLayer("PictureLayer", cullRect, off, Identity))
        /\ UNCHANGED <<root_layer_, current_layer_, cull_rects_, taken, destroyed, configuration>>
        /\ Called("PushPicture", Null)

\* LayerBuilder::PushPicture(offset, picture, is_complex, will_change);
\* cullRect is picture->cullRect()
PushPicture(off, cullRect) ==
    LET pictureRect == offset(cullRect, off.x, off.y)
    IN  /\ IF current_layer_ = Null
           THEN UNCHANGED <<layers, topAt>>
           ELSE IF ~Intersects(pictureRect, Top)
           THEN UNCHANGED <<layers, topAt>>
           ELSE /\ Len(layers) < capacity
                /\ Add(current_layer_, MakeLayer("PictureLayer", cullRect, off, Identity))
        /\ UNCHANGED <<root_layer_, current_layer_, cull_rects_, taken, destroyed, configuration>>
        /\ Called("PushPicture", Null)

\* LayerBuilder::PushChildScene(offset, size, export_token_holder, hit_testable),
\* a method of the OS_FUCHSIA builds
PushChildScene(off, size) ==
    LET sceneRect == MakeXYWH(off.x, off.y, size.width, size.height)
    IN  /\ IF current_layer_ = Null
           THEN UNCHANGED <<layers, topAt>>
           ELSE IF ~Intersects(sceneRect, Top)
           THEN UNCHANGED <<layers, topAt>>
           ELSE /\ Len(layers) < capacity
                /\ Add(current_layer_,
                       MakeLayer("ChildSceneLayer", MakeXYWH(0, 0, size.width, size.height),
                                 off, Identity))
        /\ UNCHANGED <<root_layer_, current_layer_, cull_rects_, taken, destroyed, configuration>>
        /\ Called("PushChildScene", Null)

\* ----------------------------------------------------- Pop and TakeLayer ---

\* A Pop that closes every open group at once.
PopClosesAll ==
    /\ IF current_layer_ = Null
       THEN UNCHANGED <<cull_rects_, current_layer_>>
       ELSE /\ cull_rects_' = SubSeq(cull_rects_, 1, Len(cull_rects_) - 1)
            /\ current_layer_' = Null
    /\ UNCHANGED <<layers, root_layer_, taken, destroyed, topAt, configuration>>
    /\ Called("Pop", Null)

\* Mutant of Pop: the early return is missing; the stack is popped whenever it
\* has an entry.
PopUnguarded ==
    /\ cull_rects_' = SubSeq(cull_rects_, 1, Len(cull_rects_) - 1)
    /\ current_layer_' = IF current_layer_ = Null THEN Null ELSE parent(current_layer_)
    /\ UNCHANGED <<layers, root_layer_, taken, destroyed, topAt, configuration>>
    /\ Called("Pop", Null)

\* LayerBuilder::Pop()
Pop ==
    /\ IF current_layer_ = Null
       THEN UNCHANGED <<cull_rects_, current_layer_>>
       ELSE /\ cull_rects_' = SubSeq(cull_rects_, 1, Len(cull_rects_) - 1)
            /\ current_layer_' = parent(current_layer_)
    /\ UNCHANGED <<layers, root_layer_, taken, destroyed, topAt, configuration>>
    /\ Called("Pop", Null)

\* A TakeLayer that hands out the root without giving it up (root_layer_.get()
\* in place of std::move(root_layer_)).
TakeLayerKeepsRoot ==
    /\ taken' = IF root_layer_ = Null THEN taken ELSE taken \cup {root_layer_}
    /\ UNCHANGED <<layers, root_layer_, current_layer_, cull_rects_, destroyed, topAt,
                   configuration>>
    /\ Called("TakeLayer", root_layer_)

\* LayerBuilder::TakeLayer(): std::move(root_layer_) leaves root_layer_ null
\* and hands the old value to the caller; nothing else is touched.
TakeLayer ==
    /\ root_layer_' = Null
    /\ taken' = IF root_layer_ = Null THEN taken ELSE taken \cup {root_layer_}
    /\ UNCHANGED <<layers, current_layer_, cull_rects_, destroyed, topAt, configuration>>
    /\ Called("TakeLayer", root_layer_)

\* -------------------------------------------------------- configuration ---

\* LayerBuilder::SetRasterizerTracingThreshold(uint32_t frameInterval): the
\* value is kept as the int that GetRasterizerTracingThreshold returns.
SetRasterizerTracingThreshold(frameInterval) ==
    /\ rasterizer_tracing_threshold_' = ToInt(frameInterval)
    /\ UNCHANGED <<building, checkerboard_raster_cache_images_, checkerboard_offscreen_layers_>>
    /\ Called("SetRasterizerTracingThreshold", Null)

\* LayerBuilder::SetCheckerboardRasterCacheImages(bool checkerboard)
SetCheckerboardRasterCacheImages(checkerboard) ==
    /\ checkerboard_raster_cache_images_' = checkerboard
    /\ UNCHANGED <<building, rasterizer_tracing_threshold_, checkerboard_offscreen_layers_>>
    /\ Called("SetCheckerboardRasterCacheImages", Null)

\* LayerBuilder::SetCheckerboardOffscreenLayers(bool checkerboard)
SetCheckerboardOffscreenLayers(checkerboard) ==
    /\ checkerboard_offscreen_layers_' = checkerboard
    /\ UNCHANGED <<building, rasterizer_tracing_threshold_, checkerboard_raster_cache_images_>>
    /\ Called("SetCheckerboardOffscreenLayers", Null)

\* int LayerBuilder::GetRasterizerTracingThreshold() const
GetRasterizerTracingThreshold ==
    /\ UNCHANGED <<building, configuration>>
    /\ Called("GetRasterizerTracingThreshold", rasterizer_tracing_threshold_)

\* bool LayerBuilder::GetCheckerboardRasterCacheImages() const
GetCheckerboardRasterCacheImages ==
    /\ UNCHANGED <<building, configuration>>
    /\ Called("GetCheckerboardRasterCacheImages", checkerboard_raster_cache_images_)

\* bool LayerBuilder::GetCheckerboardOffscreenLayers() const
GetCheckerboardOffscreenLayers ==
    /\ UNCHANGED <<building, configuration>>
    /\ Called("GetCheckerboardOffscreenLayers", checkerboard_offscreen_layers_)

\* -------------------------------------------------------- specification ---

\* The nine Push<X> methods that open a group.
Begin ==
    \/ \E m \in Matrices : PushTransform(m)
    \/ \E r \in ClipRects : PushClipRect(r)
    \/ \E r \in RRects : PushClipRoundedRect(r)
    \/ \E r \in PathBounds : PushClipPath(r)
    \/ PushOpacity
    \/ PushColorFilter
    \/ PushBackdropFilter
    \/ \E r \in PlainRects : PushShaderMask(r)
    \/ \E r \in RRects : PushPhysicalModel(r)

\* The three methods that add a leaf.
AddLeaf ==
    \/ \E r \in PlainRects : PushPerformanceOverlay(r)
    \/ \E o \in Offsets, c \in PictureRects : PushPicture(o, c)
    \/ \E o \in SceneOffsets, s \in Sizes : PushChildScene(o, s)

\* Any caller: every public method, in any order.
Next ==
    \/ Begin /\ UNCHANGED <<open, capacity>>
    \/ AddLeaf /\ UNCHANGED <<open, capacity>>
    \/ Pop /\ UNCHANGED <<open, capacity>>
    \/ TakeLayer /\ UNCHANGED <<open, capacity>>

Spec == Init /\ [][Next]_vars

\* A well-nested caller: only Push<X> and Pop, and never more Pops than Pushes.
NestedNext ==
    \/ Begin /\ open' = open + 1 /\ UNCHANGED capacity
    \/ Pop /\ open > 0 /\ open' = open - 1 /\ UNCHANGED capacity

NestedSpec == Init /\ [][NestedNext]_vars

\* A caller that clips, transforms and draws pictures into one tree, one layer
\* deeper.
CullInit == Constructed /\ Unconfigured /\ capacity = MaxDeep

CullNext ==
    \/ (\E m \in Matrices : PushTransform(m)) /\ UNCHANGED <<open, capacity>>
    \/ (\E r \in ClipRects : PushClipRect(r)) /\ UNCHANGED <<open, capacity>>
    \/ (\E r \in RRects : PushClipRoundedRect(r)) /\ UNCHANGED <<open, capacity>>
    \/ (\E r \in PathBounds : PushClipPath(r)) /\ UNCHANGED <<open, capacity>>
    \/ PushOpacity /\ UNCHANGED <<open, capacity>>
    \/ (\E o \in Offsets, c \in PictureRects : PushPicture(o, c)) /\ UNCHANGED <<open, capacity>>
    \/ Pop /\ UNCHANGED <<open, capacity>>

CullSpec == CullInit /\ [][CullNext]_vars

\* A caller that configures the builder while it builds a small tree; the
\* fields start at any value the setters can give them.
ConfigInit ==
    /\ Constructed
    /\ capacity = MaxConfigured
    /\ rasterizer_tracing_threshold_ \in {ToInt(f) : f \in FrameIntervals}
    /\ checkerboard_raster_cache_images_ \in BOOLEAN
    /\ checkerboard_offscreen_layers_ \in BOOLEAN

SetConfiguration ==
    \/ \E f \in FrameIntervals : SetRasterizerTracingThreshold(f)
    \/ \E b \in BOOLEAN : SetCheckerboardRasterCacheImages(b)
    \/ \E b \in BOOLEAN : SetCheckerboardOffscreenLayers(b)

GetConfiguration ==
    \/ GetRasterizerTracingThreshold
    \/ GetCheckerboardRasterCacheImages
    \/ GetCheckerboardOffscreenLayers

ConfigNext ==
    \/ Begin /\ UNCHANGED <<open, capacity>>
    \/ AddLeaf /\ UNCHANGED <<open, capacity>>
    \/ Pop /\ UNCHANGED <<open, capacity>>
    \/ TakeLayer /\ UNCHANGED <<open, capacity>>
    \/ SetConfiguration /\ UNCHANGED <<open, capacity>>
    \/ GetConfiguration /\ UNCHANGED <<open, capacity>>

ConfigSpec == ConfigInit /\ [][ConfigNext]_vars

\* ------------------------------------------------ vocabulary of the claims ---

LayerIds == 1..Len(layers)

\* The containers on the parent chain from a layer up to its root.
RECURSIVE Depth(_)
Depth(id) == IF id = Null THEN 0 ELSE 1 + Depth(parent(id))

\* The top of the parent chain of a layer.
RECURSIVE RootOf(_)
RootOf(id) == IF parent(id) = Null THEN id ELSE RootOf(parent(id))

\* The proper ancestors of a layer.
RECURSIVE Ancestors(_)
Ancestors(id) ==
    IF parent(id) = Null THEN {} ELSE {parent(id)} \cup Ancestors(parent(id))

\* A layer and everything below it.
Subtree(a) == {i \in LayerIds : i = a \/ a \in Ancestors(i)}

\* The layers of the trees TakeLayer has handed out.
TransferredLayers == {i \in LayerIds : RootOf(i) \in taken}

\* Area, said without SkRect: the unit cells [x, x+1) x [y, y+1) of the part
\* of the plane the pictures and clip shapes lie in.
Grid == -1..8

InCell(r, x, y) ==
    /\ r.fLeft <= x /\ x + 1 <= r.fRight
    /\ r.fTop <= y /\ y + 1 <= r.fBottom

\* Two rects, or three, have a cell in common.
ShareArea(a, b) == \E x \in Grid, y \in Grid : InCell(a, x, y) /\ InCell(b, x, y)

ShareArea3(a, b, c) ==
    \E x \in Grid, y \in Grid : InCell(a, x, y) /\ InCell(b, x, y) /\ InCell(c, x, y)

\* A picture's bounds moved by its offset.
Translated(c, o) ==
    [fLeft |-> c.fLeft + o.x, fTop |-> c.fTop + o.y,
     fRight |-> c.fRight + o.x, fBottom |-> c.fBottom + o.y]

ClipKinds == {"ClipRectLayer", "ClipRRectLayer", "ClipPathLayer"}

\* The clips whose shape bounds had no area in common with the top cull rect
\* when they were pushed.
EmptyClips ==
    {a \in LayerIds : layers[a].kind \in ClipKinds /\ ~ShareArea(layers[a].rect, topAt[a])}

Pictures == {p \in LayerIds : layers[p].kind = "PictureLayer"}

\* A transform that maps the whole plane to one point.
SingularTransforms ==
    {t \in LayerIds : layers[t].kind = "TransformLayer" /\ layers[t].matrix.sn = 0}

\* What the builder holds, without the record of the calls.
BuilderState == <<layers, root_layer_, current_layer_, cull_rects_, taken, destroyed>>

\* No dropped layer is a root, a transferred root or anybody's child.
DroppedLayersUnlinked ==
    \A d \in destroyed :
        /\ d # root_layer_
        /\ d \notin taken
        /\ \A i \in LayerIds : \A k \in 1..Len(layers[i].children) : layers[i].children[k] # d

\* The state a constructor leaves the builder in.
FreshBuilder ==
    /\ root_layer_ = Null
    /\ current_layer_ = Null
    /\ cull_rects_ = <<MakeLargest>>

\* ---------------------------------------------------------------- claims ---

\* C1. After a well-nested sequence of Push<X>/Pop pairs on a new builder,
\* also one with several top-level groups, the cull stack holds the sentinel
\* alone: every rect a Push<X> pushed has been popped by its Pop.
C1_BalancedSequenceLeavesSentinel ==
    open = 0 => cull_rects_ = <<MakeLargest>>

\* C2. Once TakeLayer has returned, the builder has no reference into the tree
\* it handed out: current_layer_ is no layer of a transferred tree, and no
\* later call changes a layer of a transferred tree.
C2_NoReferenceIntoTransferredTree ==
    [][/\ (current_layer_ # Null => current_layer_ \notin TransferredLayers)'
       /\ \A i \in TransferredLayers : layers'[i] = layers[i]]_vars

\* C3. In every reachable state the depth of the cull stack is the number of
\* open containers (the parent chain of current_layer_) plus one.
C3_CullDepthIsOpenContainersPlusOne ==
    Len(cull_rects_) = Depth(current_layer_) + 1

\* C4 (as claimed). Below a clip whose shape bounds miss the top cull rect no
\* picture is ever kept, whatever groups are nested in between, singular
\* transforms included.
C4_NoPictureUnderEmptyClip ==
    \A a \in EmptyClips : Subtree(a) \cap Pictures = {}

\* C4 (amended). Below a clip whose shape bounds miss the top cull rect a
\* picture is kept only under a singular transform nested inside that clip;
\* under every other nesting, invertible transforms included, the clip's
\* subtree holds no picture.
C4_NoPictureUnderEmptyClipButSingular ==
    \A a \in EmptyClips : \A p \in Subtree(a) \cap Pictures :
        \E t \in SingularTransforms : t \in Subtree(a) /\ t \in Ancestors(p)

\* A picture was offered under an invertible transform nested in an empty
\* clip, and the clip's subtree holds no picture.
C4_Witness ==
    /\ lastOp.name = "PushPicture"
    /\ current_layer_ # Null
    /\ layers[current_layer_].kind = "TransformLayer"
    /\ current_layer_ \notin SingularTransforms
    /\ \E a \in EmptyClips :
          /\ a \in Ancestors(current_layer_)
          /\ Subtree(a) \cap Pictures = {}

\* C5. PushPicture with a current layer appends a PictureLayer as the last
\* child of the current layer exactly when the picture's bounds, moved by the
\* offset, share area with the top cull rect, and otherwise leaves the layers
\* as they are; under a ClipRectLayer that is exactly when the moved bounds,
\* the clip rect and the cull rect the clip was pushed on share area.
C5_PictureKeptIffVisible ==
    [][\A o \in Offsets, c \in PictureRects :
         (PushPicture(o, c) /\ current_layer_ # Null) =>
            LET visible == ShareArea(Translated(c, o), Top)
                cur == current_layer_
                id == Len(layers) + 1
            IN  /\ visible =>
                     /\ Len(layers') = id
                     /\ layers'[id] = [MakeLayer("PictureLayer", c, o, Identity)
                                          EXCEPT !.parent = cur]
                     /\ layers'[cur] = [layers[cur] EXCEPT !.children = Append(@, id)]
                     /\ \A i \in LayerIds \ {cur} : layers'[i] = layers[i]
                /\ ~visible => layers' = layers
                /\ layers[cur].kind = "ClipRectLayer" =>
                     (visible <=> ShareArea3(Translated(c, o), layers[cur].rect, topAt[cur]))
      ]_vars

\* Scenario B: a picture was offered under a ClipRectLayer and not kept.
C5_Witness ==
    /\ lastOp.name = "PushPicture"
    /\ current_layer_ # Null
    /\ layers[current_layer_].kind = "ClipRectLayer"
    /\ layers[current_layer_].children = <<>>

\* C6. TakeLayer leaves the builder as a constructor does: no root, no current
\* layer, and a cull stack holding the sentinel alone.
C6_TakeLayerLeavesFreshBuilder ==
    [][lastOp'.name = "TakeLayer" => FreshBuilder']_vars

\* C7. The cull stack is never empty, and whenever Pop would pop (a current
\* layer is set) it holds at least two entries.
C7_SentinelNeverPopped ==
    /\ Len(cull_rects_) >= 1
    /\ current_layer_ # Null => Len(cull_rects_) >= 2

\* Pop was called with a group of a transferred tree open and popped down to
\* the sentinel.
C7_Witness ==
    /\ lastOp.name = "Pop"
    /\ taken # {}
    /\ root_layer_ = Null
    /\ Len(cull_rects_) = 1

\* C8. Pop with no current layer changes nothing the builder holds.
C8_PopWithNothingOpenIsNoOp ==
    [][(lastOp'.name = "Pop" /\ current_layer_ = Null) => UNCHANGED BuilderState]_vars

\* Pop was called after the root group was closed and a later group dropped:
\* the rect of the dropped group is still on the stack.
C8_Witness ==
    /\ lastOp.name = "Pop"
    /\ current_layer_ = Null
    /\ root_layer_ # Null
    /\ taken = {}
    /\ destroyed # {}
    /\ Len(cull_rects_) = 2

\* C9. A leaf method called with no current layer changes nothing the builder
\* holds; and a TakeLayer before any Push<X> returns no tree.
C9_LeafWithNothingOpenIsDropped ==
    [][/\ (lastOp'.name \in LeafOps /\ current_layer_ = Null) => UNCHANGED BuilderState
       /\ (lastOp'.name = "TakeLayer" /\ layers = <<>>) => lastOp'.ret = Null]_vars

\* A picture was offered after the root group was closed.
C9_Witness ==
    /\ lastOp.name = "PushPicture"
    /\ current_layer_ = Null
    /\ root_layer_ # Null
    /\ layers[root_layer_].children = <<>>

\* C10. A Push<X> with a root and no current layer pushes one cull rect and
\* drops its layer: root, current layer and every existing layer stay as they
\* are; and a dropped layer is never linked anywhere afterwards.
C10_PushWithoutCurrentDropsLayer ==
    [][/\ (lastOp'.name \in PushOps /\ root_layer_ # Null /\ current_layer_ = Null) =>
            /\ Len(cull_rects_') = Len(cull_rects_) + 1
            /\ SubSeq(cull_rects_', 1, Len(cull_rects_)) = cull_rects_
            /\ root_layer_' = root_layer_
            /\ current_layer_' = Null
            /\ \A i \in LayerIds : layers'[i] = layers[i]
            /\ destroyed' = destroyed \cup {Len(layers) + 1}
       /\ DroppedLayersUnlinked']_vars

\* A group was pushed after the root group was closed, and a later call ran.
C10_Witness ==
    /\ destroyed # {}
    /\ root_layer_ # Null
    /\ lastOp.name \in LeafOps \cup {"Pop"}

\* C11. TakeLayer returns the root the builder holds and leaves the builder
\* without a root; while no Push<X> runs the builder stays without a root
\* through every Pop, leaf call and TakeLayer, so that a second TakeLayer with
\* no Push<X> in between returns an absent tree.
C11_TakeLayerReturnsRootOnce ==
    [][/\ lastOp'.name = "TakeLayer" =>
            /\ lastOp'.ret = root_layer_
            /\ root_layer_' = Null
       /\ (root_layer_ = Null /\ lastOp'.name \notin PushOps) =>
            root_layer_' = Null]_vars

\* A TakeLayer has returned an absent tree after an earlier one returned a
\* tree.
C11_Witness ==
    /\ lastOp.name = "TakeLayer"
    /\ lastOp.ret = Null
    /\ taken # {}

\* C12 (as stated). There is at most one root, and once a layer is the root
\* no public operation ever makes a different layer the root.
C12_RootNeverReplaced ==
    /\ \A i \in LayerIds :
           parent(i) = Null => (i = root_layer_ \/ i \in taken \/ i \in destroyed)
    /\ root_layer_ # Null => taken = {}

\* C12 (amended). There is at most one root at a time, and only TakeLayer
\* parts the builder from its root: no Push<X>, Pop or leaf call changes a
\* root that exists, and every layer without a parent is the root, a root
\* handed out earlier, or a layer that was dropped.
C12_RootChangesOnlyByTakeLayer ==
    [][/\ (root_layer_ # Null /\ lastOp'.name # "TakeLayer") =>
            root_layer_' = root_layer_
       /\ (\A i \in LayerIds :
              parent(i) = Null => (i = root_layer_ \/ i \in taken \/ i \in destroyed))'
      ]_vars

\* A Push<X> has installed a second root after TakeLayer handed out the first.
C12_Witness ==
    /\ root_layer_ # Null
    /\ taken # {}
    /\ lastOp.name \in PushOps

\* The coordinates on which two intervals are compared point by point.
Line == -64..64

\* [plo, phi] holds exactly the coordinates that the matrix's scale with the
\* translation t sends into [lo, hi].
IsPreimage(m, t, lo, hi, plo, phi) ==
    \A x \in Line :
        (plo <= x /\ x <= phi) <=>
            (m.sd * lo <= m.sn * x + m.sd * t /\ m.sn * x + m.sd * t <= m.sd * hi)

\* p is the set of points that the matrix m sends into the rect r.
IsInverseImage(m, r, p) ==
    /\ IsPreimage(m, m.tx, r.fLeft, r.fRight, p.fLeft, p.fRight)
    /\ IsPreimage(m, m.ty, r.fTop, r.fBottom, p.fTop, p.fBottom)

HasArea(r) == r.fLeft < r.fRight /\ r.fTop < r.fBottom

\* C13. In every builder state PushTransform(M) pushes one cull rect fixed by
\* M and the top rect alone: the image of the top rect under the inverse of M
\* when M is invertible, the unbounded rect when M is singular; and a
\* PushPicture with non-empty bounds made directly under a singular transform
\* is never pruned.
C13_TransformPushesInverseImage ==
    [][/\ \A m \in Matrices :
            PushTransform(m) =>
                /\ Len(cull_rects_') = Len(cull_rects_) + 1
                /\ SubSeq(cull_rects_', 1, Len(cull_rects_)) = cull_rects_
                /\ IF m.sn = 0
                   THEN Top' = MakeLargest
                   ELSE IsInverseImage(m, Top, Top')
       /\ \A o \in Offsets, c \in PictureRects :
            (PushPicture(o, c) /\ current_layer_ \in SingularTransforms /\ HasArea(c)) =>
                /\ Len(layers') = Len(layers) + 1
                /\ layers'[Len(layers')].kind = "PictureLayer"
                /\ layers'[Len(layers')].parent = current_layer_]_vars

\* An invertible transform was pushed over a bounded top rect.
C13_Witness ==
    /\ lastOp.name = "PushTransform"
    /\ layers[Len(layers)].matrix.sn # 0
    /\ topAt[Len(layers)] # MakeLargest
    /\ HasArea(topAt[Len(layers)])
    /\ Top # topAt[Len(layers)]

\* The layer with the next id is appended as the last child of c, and no
\* other layer, child list or link changes.
AppendedAsLastChild(c) ==
    LET id == Len(layers) + 1
    IN  /\ Len(layers') = id
        /\ layers'[id].parent = c
        /\ layers'[id].children = <<>>
        /\ layers'[c].children = Append(layers[c].children, id)
        /\ layers'[c].parent = layers[c].parent
        /\ \A i \in LayerIds \ {c} : layers'[i] = layers[i]

\* C14. PushPerformanceOverlay called with a current layer always appends a
\* performance overlay layer as the last child of the current layer, whatever
\* the top cull rect (the empty rect included) and whatever its own rect; it
\* changes neither the current layer, the root nor the cull stack.
C14_OverlayNeverPruned ==
    [][(lastOp'.name = "PushPerformanceOverlay" /\ current_layer_ # Null) =>
            /\ AppendedAsLastChild(current_layer_)
            /\ layers'[Len(layers')].kind = "PerformanceOverlayLayer"
            /\ UNCHANGED <<root_layer_, current_layer_, cull_rects_>>]_vars

\* An overlay was added under a clip whose cull rect is empty.
C14_Witness ==
    /\ lastOp.name = "PushPerformanceOverlay"
    /\ layers # <<>>
    /\ layers[Len(layers)].kind = "PerformanceOverlayLayer"
    /\ layers[Len(layers)].parent = current_layer_
    /\ layers[current_layer_].kind \in ClipKinds
    /\ Top = MakeEmpty
    /\ HasArea(layers[Len(layers)].rect)

Setters ==
    {"SetRasterizerTracingThreshold", "SetCheckerboardRasterCacheImages",
     "SetCheckerboardOffscreenLayers"}

Getters ==
    {"GetRasterizerTracingThreshold", "GetCheckerboardRasterCacheImages",
     "GetCheckerboardOffscreenLayers"}

\* The int i is the number the uint32_t u stands for.
SameNumber(i, u) == i >= 0 /\ i \div 65536 = u.hi /\ i % 65536 = u.lo

\* Every call but a setter leaves the configuration alone, every setter and
\* getter leaves the tree, the current layer and the cull stack alone, a
\* getter returns its field, and a setter changes its own field only.
ConfigurationIsApart ==
    /\ lastOp'.name \notin Setters => UNCHANGED configuration
    /\ lastOp'.name \in Setters \cup Getters =>
            UNCHANGED <<layers, root_layer_, current_layer_, cull_rects_>>
    /\ lastOp'.name = "GetRasterizerTracingThreshold" =>
            lastOp'.ret = rasterizer_tracing_threshold_
    /\ lastOp'.name = "GetCheckerboardRasterCacheImages" =>
            lastOp'.ret = checkerboard_raster_cache_images_
    /\ lastOp'.name = "GetCheckerboardOffscreenLayers" =>
            lastOp'.ret = checkerboard_offscreen_layers_
    /\ lastOp'.name = "SetRasterizerTracingThreshold" =>
            UNCHANGED <<checkerboard_raster_cache_images_, checkerboard_offscreen_layers_>>
    /\ \A b \in BOOLEAN :
            SetCheckerboardRasterCacheImages(b) =>
                /\ checkerboard_raster_cache_images_' = b
                /\ UNCHANGED <<rasterizer_tracing_threshold_, checkerboard_offscreen_layers_>>
    /\ \A b \in BOOLEAN :
            SetCheckerboardOffscreenLayers(b) =>
                /\ checkerboard_offscreen_layers_' = b
                /\ UNCHANGED <<rasterizer_tracing_threshold_, checkerboard_raster_cache_images_>>

\* C15. The configuration setters leave the root, the tree, the current
\* layer and the cull stack as they are and change only their own field; each
\* getter returns the value most recently set, so that after
\* SetRasterizerTracingThreshold(f) the threshold getter returns the number
\* f; and no Push<X>, Pop, leaf method or TakeLayer changes a configuration
\* field.
C15_ConfigurationIsPassThrough ==
    [][/\ ConfigurationIsApart
       /\ \A f \in FrameIntervals :
            SetRasterizerTracingThreshold(f) =>
                SameNumber(rasterizer_tracing_threshold_', f)]_vars

\* The same with the frame intervals an int can hold.
C15_PassThroughBelowIntMax ==
    [][/\ ConfigurationIsApart
       /\ \A f \in FrameIntervals :
            (SetRasterizerTracingThreshold(f) /\ f.hi < 32768) =>
                SameNumber(rasterizer_tracing_threshold_', f)]_vars

ShapeOps == {"PushClipRect", "PushClipRoundedRect", "PushClipPath", "PushPhysicalModel"}

PassOps == {"PushOpacity", "PushColorFilter", "PushBackdropFilter", "PushShaderMask"}

\* p is what the rects a and b have in common: the rect of their common
\* cells, or the empty rect when they share none.
IsCommonPart(p, a, b) ==
    IF ShareArea(a, b)
    THEN \A x \in Grid, y \in Grid : InCell(p, x, y) <=> (InCell(a, x, y) /\ InCell(b, x, y))
    ELSE p = MakeEmpty

\* C16. Every Push<X> but PushTransform pushes exactly one cull rect, computed
\* from the top rect T: PushClipRect, PushClipRoundedRect, PushClipPath and
\* PushPhysicalModel push what the shape's bounds and T have in common, the
\* empty rect when they have nothing in common or one of them is empty;
\* PushOpacity, PushColorFilter, PushBackdropFilter and PushShaderMask push T
\* itself, whatever the mask rect.
C16_PushedCullRectByKind ==
    [][/\ lastOp'.name \in ShapeOps \cup PassOps =>
            /\ Len(cull_rects_') = Len(cull_rects_) + 1
            /\ SubSeq(cull_rects_', 1, Len(cull_rects_)) = cull_rects_
       /\ lastOp'.name \in ShapeOps =>
            IsCommonPart(Top', layers'[Len(layers')].rect, Top)
       /\ lastOp'.name \in PassOps => Top' = Top]_vars

\* A physical model with area was pushed over a top rect with area that it
\* does not meet, and the empty rect went on the stack.
C16_Witness ==
    /\ lastOp.name = "PushPhysicalModel"
    /\ HasArea(layers[Len(layers)].rect)
    /\ HasArea(topAt[Len(layers)])
    /\ Top = MakeEmpty

\* C17. Pop called with a current layer removes exactly the top entry of the
\* cull stack and makes the parent of the current layer the current layer (no
\* current layer when it had no parent), leaving the root and every layer as
\* they are; the top rect thereby is again what it was before the Push<X>
\* that created and linked the layer being closed.
C17_PopReturnsToParent ==
    [][(lastOp'.name = "Pop" /\ current_layer_ # Null) =>
            /\ cull_rects_' = SubSeq(cull_rects_, 1, Len(cull_rects_) - 1)
            /\ current_layer_' = layers[current_layer_].parent
            /\ UNCHANGED <<root_layer_, layers>>
            /\ Top' = topAt[current_layer_]]_vars

\* A Pop closed a nested group: its parent is the current layer again.
C17_Witness ==
    /\ lastOp.name = "Pop"
    /\ current_layer_ # Null
    /\ layers[current_layer_].children # <<>>
    /\ Len(cull_rects_) = 2

\* The ids of the layers linked under c, in the order of their creation.
RECURSIVE LinkedUnder(_, _)
LinkedUnder(c, n) ==
    IF n = 0 THEN <<>>
    ELSE IF layers[n].parent = c
         THEN Append(LinkedUnder(c, n - 1), n)
         ELSE LinkedUnder(c, n - 1)

\* C18. The children of every container are in insertion order: every
\* Push<X>, and every leaf call that is not pruned, made with a current layer
\* appends the new layer as the last child of the current layer and neither
\* reorders nor removes a child; Push<X> makes the new layer the current
\* layer, a leaf call leaves the current layer as it is.
C18_ChildrenInInsertionOrder ==
    [][/\ (lastOp'.name \in PushOps /\ current_layer_ # Null) =>
            /\ AppendedAsLastChild(current_layer_)
            /\ current_layer_' = Len(layers')
       /\ (lastOp'.name \in LeafOps /\ current_layer_ # Null /\ layers' # layers) =>
            /\ AppendedAsLastChild(current_layer_)
            /\ current_layer_' = current_layer_
       /\ \A c \in LayerIds : layers'[c].children = (LinkedUnder(c, Len(layers)))']_vars

\* The same for calls made while the builder has a root.
C18_InsertionOrderUnderRoot ==
    [][/\ (lastOp'.name \in PushOps /\ current_layer_ # Null /\ root_layer_ # Null) =>
            /\ AppendedAsLastChild(current_layer_)
            /\ current_layer_' = Len(layers')
       /\ (lastOp'.name \in LeafOps /\ current_layer_ # Null /\ layers' # layers) =>
            /\ AppendedAsLastChild(current_layer_)
            /\ current_layer_' = current_layer_
       /\ \A c \in LayerIds : layers'[c].children = (LinkedUnder(c, Len(layers)))']_vars

\* No PushTransform has been called: every Push<X> leaves its layer in the
\* arena, linked or not.
NoTransformPushed == \A i \in LayerIds : layers[i].kind # "TransformLayer"

\* Every cell of inner is a cell of outer; a rect without area has no cell.
Within(inner, outer) ==
    \A x \in Grid, y \in Grid : InCell(inner, x, y) => InCell(outer, x, y)

\* C19. As long as no PushTransform has been called, the cull stack shrinks
\* from bottom to top: every entry lies within the entry below it (it may be
\* equal to it, or empty), so that above an empty entry every entry is empty.
C19_CullStackShrinksWithoutTransform ==
    NoTransformPushed =>
        \A k \in 2..Len(cull_rects_) : Within(cull_rects_[k], cull_rects_[k - 1])

\* Three entries without a transform: a clip with area, and above it a rect
\* that differs from it.
C19_Witness ==
    /\ NoTransformPushed
    /\ Len(cull_rects_) = 3
    /\ HasArea(cull_rects_[2])
    /\ cull_rects_[3] # cull_rects_[2]

ShapeKinds == ClipKinds \cup {"PhysicalModelLayer"}

\* C20. As long as no PushTransform has been called, every picture layer in
\* a tree has translated bounds that share area with the shape bounds of
\* each of its ancestors that is a clip rect, clip rounded rect, clip path or
\* physical model layer.
C20_PicturesMeetEveryShapeAncestor ==
    NoTransformPushed =>
        \A p \in Pictures :
            \A a \in Ancestors(p) :
                layers[a].kind \in ShapeKinds =>
                    ShareArea(Translated(layers[p].rect, layers[p].offset), layers[a].rect)

\* A picture moved by a non-zero offset was kept under a clip, with no
\* transform anywhere.
C20_Witness ==
    /\ NoTransformPushed
    /\ \E p \in Pictures :
           /\ layers[p].offset # NoOffset
           /\ \E a \in Ancestors(p) : layers[a].kind \in ShapeKinds

====
